---- MODULE Spec2Model ----
(***************************************************************************)
(* A model of SQLAir (src/SQLAir.cpp): the query engine (selectQuery,      *)
(* updateQuery, insertQuery, deleteQuery) with its row mutexes and the     *)
(* per-table condition variable, the table cache (loadAndGet, saveQuery)   *)
(* and the bounded-concurrency web server (runServer, clientThread).       *)
(*                                                                         *)
(* Three specifications share the variables:                               *)
(*   Spec        query threads on tables that are already in memory        *)
(*   SpecCache   threads that resolve a table through loadAndGet           *)
(*   SpecServer  the accept loop and its detached workers                  *)
(***************************************************************************)
EXTENDS Integers, Sequences, FiniteSets, TLC

\* ------------------------------------------------------------------ bounds
NumThreads == 2          \* query threads of Spec
NumRows == 2             \* rows of every table
MaxSpurious == 1         \* spurious wakeups of a condition variable in a run
MaxConn == 3             \* connections the server is offered in a run
MaxWorkers == 2          \* largest maxThr the server is started with

QThreads == 1..NumThreads
Rows == 1..NumRows
NoThread == 0            \* owner of a free mutex

\* ------------------------------------------------------------ identifiers
\* A file name or URL is a sequence of tokens, so that empty() and
\* find("http://") == 0 are computed from the identifier itself.
Empty == << >>
T1 == <<"t1.csv">>
T2 == <<"t2.csv">>
HTTP == "http://"

IsEmpty(id) == Len(id) = 0
IsURL(id) == Len(id) > 0 /\ id[1] = HTTP

\* The sources of a run: one readable local file, one unreadable or
\* malformed one, one URL the web server answers with 200 OK and one it
\* answers with 404.  The empty path names no file.
A == <<"a.csv">>
Bad == <<"bad.csv">>
URLOK == <<HTTP, "host/r.csv">>
URL404 == <<HTTP, "host/none.csv">>
CacheIds == <<Empty, A, Bad, URLOK, URL404>>

\* ----------------------------------------------------------------- tables
\* Every table has the columns c1, c2; a row is the tuple of its two values.
ColNames == <<"c1", "c2">>
Values == 0..3

getColumnIndex(name) == CHOOSE i \in 1..Len(ColNames) : ColNames[i] = name

matches(field, cond, value) ==
    CASE cond = "=" -> field = value
      [] cond = "!=" -> field # value
      [] OTHER -> FALSE

\* The statements the query threads run.  whereColIdx = -1 is "no condition";
\* column indexes are 1-based here (0-based in the code).
Sel(t, w, cols, wc, v) ==
    [kind |-> "select", tbl |-> t, mustWait |-> w, colNames |-> cols,
     values |-> << >>, whereColIdx |-> wc, cond |-> "=", value |-> v]
Upd(t, w, v, wc, wv) ==
    [kind |-> "update", tbl |-> t, mustWait |-> w, colNames |-> <<"c1", "c2">>,
     values |-> <<v, v>>, whereColIdx |-> wc, cond |-> "=", value |-> wv]
Other(k, t) ==
    [kind |-> k, tbl |-> t, mustWait |-> TRUE, colNames |-> <<"c1">>,
     values |-> <<1>>, whereColIdx |-> 1, cond |-> "=", value |-> 1]

Statements ==
    << Sel(T1, TRUE, <<"*">>, 1, 1),      \* blocking select where c1 = 1
       Sel(T1, FALSE, <<"c2">>, -1, 0),   \* select c2 of every row
       Upd(T1, FALSE, 1, 1, 0),           \* set c1=1,c2=1 where c1 = 0
       Upd(T1, TRUE, 2, 1, 1),            \* blocking: set c1=2,c2=2 where c1 = 1
       Sel(T2, TRUE, <<"*">>, 1, 1),      \* blocking select on the other table
       Upd(T2, FALSE, 1, -1, 0),          \* set c1=1,c2=1 in every row
       Other("insert", T1),
       Other("delete", T1) >>

\* The threads are interchangeable: thread t runs a statement that is not
\* before thread t-1's in the list.
Assignments ==
    { [t \in QThreads |-> Statements[f[t]]] :
        f \in { g \in [QThreads -> 1..Len(Statements)] :
                    \A t \in QThreads \ {1} : g[t - 1] <= g[t] } }

VARIABLES
    inMemoryCSV,   \* SQLAir::inMemoryCSV: identifier -> rows of the table
    recentCSV,     \* SQLAir::recentCSV
    recentCSVMutex,\* owner of SQLAir::recentCSVMutex
    rowMutex,      \* identifier -> row -> owner of CSVRow::rowMutex
    csvMutex,      \* identifier -> owner of CSV::csvMutex
    waiting,       \* identifier -> threads blocked in csvCondVar.wait
    spurious,      \* spurious wakeups so far
    pc,            \* thread -> position in its code
    qry,           \* thread -> the statement it runs (the arguments)
    fileOrURL,     \* thread -> loadAndGet's parameter / local
    loaded,        \* thread -> loadAndGet's local csv, << >> before the load
    colNames,      \* thread -> selectQuery's colNames after "*" is expanded
    rowIdx,        \* thread -> the row the range-for is at
    numRows,       \* thread -> numRows of the current call frame
    rowChosen,     \* thread -> rowChosen of selectQuery
    selRow,        \* thread -> selRow of selectQuery
    colI,          \* thread -> i of updateQuery's inner loop
    passes,        \* thread -> calls of selectQuery/updateQuery so far
    out,           \* thread -> rows written to os by display
    result,        \* thread -> the count in "n row(s) ...", -1 before
    err,           \* thread -> what() of the exception that ended it, or ""
    numThreads,    \* SQLAir::numThreads
    maxThr,        \* runServer's maxThr
    thrMutex,      \* owner of SQLAir::thrMutex
    accPc,         \* position of runServer's loop
    accepted,      \* connections accepted so far
    wpc,           \* worker -> position in clientThread
    wresp,         \* worker -> the responses it wrote to its client
    disk           \* local path -> the file of that name on the server

vars == <<inMemoryCSV, recentCSV, recentCSVMutex, rowMutex, csvMutex, waiting,
          spurious, pc, qry, fileOrURL, loaded, colNames, rowIdx, numRows,
          rowChosen,
          selRow, colI, passes, out, result, err,
          numThreads, maxThr, thrMutex, accPc, accepted, wpc, wresp, disk>>

serverVars == <<numThreads, maxThr, thrMutex, accPc, accepted, wpc, wresp>>
queryVars == <<inMemoryCSV, recentCSV, recentCSVMutex, rowMutex, csvMutex,
               waiting, pc, qry, fileOrURL, loaded, colNames, rowIdx,
               numRows, rowChosen, selRow, colI, passes, out, result, err>>
cacheVars == <<inMemoryCSV, recentCSV, recentCSVMutex>>
frameVars == <<colNames, rowIdx, numRows, rowChosen, selRow, colI, passes>>

\* The table the statement runs on: the reference loadAndGet returned.
Tbl(t) == fileOrURL[t]
RowOf(t) == inMemoryCSV[Tbl(t)][rowIdx[t]]

\* ------------------------------------------------------------ selectQuery
\* line 63: "*" becomes the table's column names; a new frame starts.  The
\* call is the first one (colNames[t] is the statement's list) or the
\* recursive one of line 83 (colNames[t] is the caller's expanded list).
SelectQuery(t) ==
    /\ pc[t] = "start" /\ qry[t].kind = "select"
    /\ colNames' = [colNames EXCEPT ![t] = IF @[1] = "*" THEN ColNames ELSE @]
    /\ numRows' = [numRows EXCEPT ![t] = 0]
    /\ rowIdx' = [rowIdx EXCEPT ![t] = 1]
    /\ passes' = [passes EXCEPT ![t] = @ + 1]
    /\ pc' = [pc EXCEPT ![t] = "sel_lock"]
    /\ UNCHANGED <<serverVars, disk, cacheVars, rowMutex, csvMutex, waiting,
                   spurious, qry, loaded, fileOrURL, rowChosen, selRow, colI,
                   out, result, err>>

\* SelLock as it would be if the select read the row without waiting for the
\* row's mutex.
SelLockNoWait(t) ==
    /\ pc[t] = "sel_lock"
    /\ rowMutex' = [rowMutex EXCEPT ![Tbl(t)][rowIdx[t]] = t]
    /\ pc' = [pc EXCEPT ![t] = "sel_cs"]
    /\ UNCHANGED <<serverVars, disk, cacheVars, csvMutex, waiting, spurious, qry,
                   loaded, fileOrURL, frameVars, out, result, err>>

\* line 70: scoped_lock on the row's mutex.
SelLock(t) ==
    /\ pc[t] = "sel_lock"
    /\ rowMutex[Tbl(t)][rowIdx[t]] = NoThread
    /\ rowMutex' = [rowMutex EXCEPT ![Tbl(t)][rowIdx[t]] = t]
    /\ pc' = [pc EXCEPT ![t] = "sel_cs"]
    /\ UNCHANGED <<serverVars, disk, cacheVars, csvMutex, waiting, spurious, qry,
                   loaded, fileOrURL, frameVars, out, result, err>>

\* SelCheckCopy as it would be if the lock stayed in scope over display.
SelCheckCopyHolds(t) ==
    /\ pc[t] = "sel_cs"
    /\ rowChosen' = [rowChosen EXCEPT ![t] =
            \/ qry[t].whereColIdx = -1
            \/ matches(RowOf(t)[qry[t].whereColIdx], qry[t].cond, qry[t].value)]
    /\ selRow' = [selRow EXCEPT ![t] = RowOf(t)]
    /\ pc' = [pc EXCEPT ![t] = "sel_disp"]
    /\ UNCHANGED <<serverVars, disk, cacheVars, rowMutex, csvMutex, waiting,
                   spurious, qry, loaded, fileOrURL, colNames, rowIdx,
                   numRows, colI, passes, out, result, err>>

\* lines 71-74: the match test and the copy, then the lock goes out of scope.
SelCheckCopy(t) ==
    /\ pc[t] = "sel_cs"
    /\ rowChosen' = [rowChosen EXCEPT ![t] =
            \/ qry[t].whereColIdx = -1
            \/ matches(RowOf(t)[qry[t].whereColIdx], qry[t].cond, qry[t].value)]
    /\ selRow' = [selRow EXCEPT ![t] = RowOf(t)]
    /\ rowMutex' = [rowMutex EXCEPT ![Tbl(t)][rowIdx[t]] = NoThread]
    /\ pc' = [pc EXCEPT ![t] = "sel_disp"]
    /\ UNCHANGED <<serverVars, disk, cacheVars, csvMutex, waiting, spurious, qry,
                   loaded, fileOrURL, colNames, rowIdx, numRows, colI,
                   passes, out, result, err>>

\* lines 44-55: the values of the chosen columns of the copied row.
display(row, cols) == [i \in 1..Len(cols) |-> row[getColumnIndex(cols[i])]]

\* SelDisplay as it would be if display wrote the row ahead of the rows
\* already written.
SelDisplayPrepends(t) ==
    /\ pc[t] = "sel_disp"
    /\ IF rowChosen[t]
         THEN /\ numRows' = [numRows EXCEPT ![t] = @ + 1]
              /\ out' = [out EXCEPT ![t] =
                            <<display(selRow[t], colNames[t])>> \o @]
         ELSE UNCHANGED <<numRows, out>>
    /\ IF rowIdx[t] < Len(inMemoryCSV[Tbl(t)])
         THEN /\ rowIdx' = [rowIdx EXCEPT ![t] = @ + 1]
              /\ pc' = [pc EXCEPT ![t] = "sel_lock"]
         ELSE /\ UNCHANGED rowIdx
              /\ pc' = [pc EXCEPT ![t] = "end"]
    /\ UNCHANGED <<serverVars, disk, cacheVars, rowMutex, csvMutex, waiting,
                   spurious, qry, loaded, fileOrURL, colNames, rowChosen,
                   selRow, colI, passes, result, err>>

\* lines 75-78: output outside the critical section, then the next row.
SelDisplay(t) ==
    /\ pc[t] = "sel_disp"
    /\ IF rowChosen[t]
         THEN /\ numRows' = [numRows EXCEPT ![t] = @ + 1]
              /\ out' = [out EXCEPT ![t] = Append(@, display(selRow[t], colNames[t]))]
         ELSE UNCHANGED <<numRows, out>>
    /\ IF rowIdx[t] < Len(inMemoryCSV[Tbl(t)])
         THEN /\ rowIdx' = [rowIdx EXCEPT ![t] = @ + 1]
              /\ pc' = [pc EXCEPT ![t] = "sel_lock"]
         ELSE /\ UNCHANGED rowIdx
              /\ pc' = [pc EXCEPT ![t] = "end"]
    /\ UNCHANGED <<serverVars, disk, cacheVars, rowMutex, csvMutex, waiting,
                   spurious, qry, loaded, fileOrURL, colNames, rowChosen,
                   selRow, colI, passes, result, err>>

\* ------------------------------------------------------------ updateQuery
\* line 93: a new frame (the first call, or the recursive one of line 111).
UpdateQuery(t) ==
    /\ pc[t] = "start" /\ qry[t].kind = "update"
    /\ numRows' = [numRows EXCEPT ![t] = 0]
    /\ rowIdx' = [rowIdx EXCEPT ![t] = 1]
    /\ passes' = [passes EXCEPT ![t] = @ + 1]
    /\ pc' = [pc EXCEPT ![t] = "upd_lock"]
    /\ UNCHANGED <<serverVars, disk, cacheVars, rowMutex, csvMutex, waiting,
                   spurious, qry, loaded, fileOrURL, colNames, rowChosen,
                   selRow, colI, out, result, err>>

\* UpdLock as it would be if the update went on without waiting for the
\* row's mutex.
UpdLockNoWait(t) ==
    /\ pc[t] = "upd_lock"
    /\ rowMutex' = [rowMutex EXCEPT ![Tbl(t)][rowIdx[t]] = t]
    /\ pc' = [pc EXCEPT ![t] = "upd_test"]
    /\ UNCHANGED <<serverVars, disk, cacheVars, csvMutex, waiting, spurious,
                   qry, loaded, fileOrURL, frameVars, out, result, err>>

\* line 96: scoped_lock on the row's mutex, held to the end of the iteration.
UpdLock(t) ==
    /\ pc[t] = "upd_lock"
    /\ rowMutex[Tbl(t)][rowIdx[t]] = NoThread
    /\ rowMutex' = [rowMutex EXCEPT ![Tbl(t)][rowIdx[t]] = t]
    /\ pc' = [pc EXCEPT ![t] = "upd_test"]
    /\ UNCHANGED <<serverVars, disk, cacheVars, csvMutex, waiting, spurious, qry,
                   loaded, fileOrURL, frameVars, out, result, err>>

\* UpdNextRow as it would be if the lock of the last row stayed in scope
\* after the loop.
UpdNextRowHoldsLast(t) ==
    IF rowIdx[t] < Len(inMemoryCSV[Tbl(t)])
      THEN /\ rowMutex' = [rowMutex EXCEPT ![Tbl(t)][rowIdx[t]] = NoThread]
           /\ rowIdx' = [rowIdx EXCEPT ![t] = @ + 1]
           /\ pc' = [pc EXCEPT ![t] = "upd_lock"]
      ELSE /\ UNCHANGED <<rowMutex, rowIdx>>
           /\ pc' = [pc EXCEPT ![t] = "end"]

\* The end of one iteration of the loop of line 95: the row's lock goes out
\* of scope and the range-for moves on.
UpdNextRow(t) ==
    /\ rowMutex' = [rowMutex EXCEPT ![Tbl(t)][rowIdx[t]] = NoThread]
    /\ IF rowIdx[t] < Len(inMemoryCSV[Tbl(t)])
         THEN /\ rowIdx' = [rowIdx EXCEPT ![t] = @ + 1]
              /\ pc' = [pc EXCEPT ![t] = "upd_lock"]
         ELSE /\ UNCHANGED rowIdx
              /\ pc' = [pc EXCEPT ![t] = "end"]

\* lines 99-100: the match test under the lock.
UpdTest(t) ==
    /\ pc[t] = "upd_test"
    /\ IF \/ qry[t].whereColIdx = -1
          \/ matches(RowOf(t)[qry[t].whereColIdx], qry[t].cond, qry[t].value)
         THEN /\ numRows' = [numRows EXCEPT ![t] = @ + 1]
              /\ IF Len(qry[t].colNames) > 0
                   THEN /\ colI' = [colI EXCEPT ![t] = 1]
                        /\ pc' = [pc EXCEPT ![t] = "upd_set"]
                        /\ UNCHANGED <<rowMutex, rowIdx>>
                   ELSE /\ UNCHANGED colI
                        /\ UpdNextRow(t)
         ELSE /\ UNCHANGED <<numRows, colI>>
              /\ UpdNextRow(t)
    /\ UNCHANGED <<serverVars, disk, cacheVars, csvMutex, waiting, spurious, qry,
                   loaded, fileOrURL, colNames, rowChosen, selRow, passes,
                   out, result, err>>

\* UpdSet as it would be if the i-th value went to the i-th column of the
\* row instead of the column named colNames[i].
UpdSetByPosition(t) ==
    /\ pc[t] = "upd_set"
    /\ inMemoryCSV' = [inMemoryCSV EXCEPT
            ![Tbl(t)][rowIdx[t]][colI[t]] = qry[t].values[colI[t]]]
    /\ IF colI[t] < Len(qry[t].colNames)
         THEN /\ colI' = [colI EXCEPT ![t] = @ + 1]
              /\ UNCHANGED <<rowMutex, rowIdx, pc>>
         ELSE /\ UNCHANGED colI
              /\ UpdNextRow(t)
    /\ UNCHANGED <<serverVars, disk, recentCSV, recentCSVMutex, csvMutex,
                   waiting, spurious, qry, loaded, fileOrURL, colNames,
                   numRows, rowChosen, selRow, passes, out, result, err>>

\* lines 101-103: one assignment row[getColumnIndex(colNames[i])] = values[i].
UpdSet(t) ==
    /\ pc[t] = "upd_set"
    /\ inMemoryCSV' = [inMemoryCSV EXCEPT
            ![Tbl(t)][rowIdx[t]][getColumnIndex(qry[t].colNames[colI[t]])] =
                qry[t].values[colI[t]]]
    /\ IF colI[t] < Len(qry[t].colNames)
         THEN /\ colI' = [colI EXCEPT ![t] = @ + 1]
              /\ UNCHANGED <<rowMutex, rowIdx, pc>>
         ELSE /\ UNCHANGED colI
              /\ UpdNextRow(t)
    /\ UNCHANGED <<serverVars, disk, recentCSV, recentCSVMutex, csvMutex, waiting,
                   spurious, qry, loaded, fileOrURL, colNames, numRows,
                   rowChosen, selRow, passes, out, result, err>>

\* ------------------------------------------- after the pass: wait or report
\* Leaving the outermost frame runs the destructors of the unique_locks of
\* the frames below it (lines 80, 108): the thread gives csvMutex back.
Unwound(t) == [csvMutex EXCEPT ![Tbl(t)] = IF @ = t THEN NoThread ELSE @]

\* line 116: notify_all moves every thread blocked in wait out of the wait;
\* each has to take csvMutex again before wait returns.
NotifyAll(id) == [u \in DOMAIN pc |->
                    IF u \in waiting[id] THEN "cv_reacq" ELSE pc[u]]

\* lines 79/107: mustWait and nothing chosen: go and wait.
EndWait(t) ==
    /\ pc[t] = "end"
    /\ qry[t].mustWait /\ numRows[t] = 0
    /\ pc' = [pc EXCEPT ![t] = "cv_lock"]
    /\ UNCHANGED <<serverVars, disk, cacheVars, rowMutex, csvMutex, waiting,
                   spurious, qry, loaded, fileOrURL, frameVars, out, result,
                   err>>

\* lines 85 / 114-117: the count is written; an update that changed a row
\* notifies; the call returns through every frame.
EndReport(t) ==
    /\ pc[t] = "end"
    /\ ~(qry[t].mustWait /\ numRows[t] = 0)
    /\ result' = [result EXCEPT ![t] = numRows[t]]
    /\ IF qry[t].kind = "update" /\ numRows[t] > 0
         THEN /\ waiting' = [waiting EXCEPT ![Tbl(t)] = {}]
              /\ pc' = [NotifyAll(Tbl(t)) EXCEPT ![t] = "done"]
         ELSE /\ UNCHANGED waiting
              /\ pc' = [pc EXCEPT ![t] = "done"]
    /\ csvMutex' = Unwound(t)
    /\ UNCHANGED <<serverVars, disk, cacheVars, rowMutex, spurious, qry, loaded,
                   fileOrURL, frameVars, out, err>>

\* lines 80/108: unique_lock on csvMutex, which no thread owns.
CvLock(t) ==
    /\ pc[t] = "cv_lock"
    /\ csvMutex[Tbl(t)] = NoThread
    /\ csvMutex' = [csvMutex EXCEPT ![Tbl(t)] = t]
    /\ pc' = [pc EXCEPT ![t] = "cv_wait"]
    /\ UNCHANGED <<serverVars, disk, cacheVars, rowMutex, waiting, spurious, qry,
                   loaded, fileOrURL, frameVars, out, result, err>>

\* lines 80/108 in the recursive call: the caller's frame still owns
\* csvMutex (its unique_lock is in scope across lines 83/111), and locking
\* a std::mutex the thread owns is undefined: the thread hangs on itself,
\* or lock() throws std::system_error and the frames unwind.
CvRelock(t) ==
    /\ pc[t] = "cv_lock"
    /\ csvMutex[Tbl(t)] = t
    /\ \/ /\ pc' = [pc EXCEPT ![t] = "hung"]
          /\ UNCHANGED <<csvMutex, err>>
       \/ /\ pc' = [pc EXCEPT ![t] = "failed"]
          /\ err' = [err EXCEPT ![t] = "Resource deadlock avoided"]
          /\ csvMutex' = Unwound(t)
    /\ UNCHANGED <<serverVars, disk, cacheVars, rowMutex, waiting, spurious, qry,
                   loaded, fileOrURL, frameVars, out, result>>

\* lines 81/109: wait gives csvMutex back and blocks, in one step.
CvWait(t) ==
    /\ pc[t] = "cv_wait"
    /\ csvMutex' = [csvMutex EXCEPT ![Tbl(t)] = NoThread]
    /\ waiting' = [waiting EXCEPT ![Tbl(t)] = @ \cup {t}]
    /\ pc' = [pc EXCEPT ![t] = "cv_blocked"]
    /\ UNCHANGED <<serverVars, disk, cacheVars, rowMutex, spurious, qry, loaded,
                   fileOrURL, frameVars, out, result, err>>

\* std::condition_variable::wait may return without a notification.
SpuriousWakeup(t) ==
    /\ pc[t] = "cv_blocked" /\ t \in waiting[Tbl(t)]
    /\ spurious < MaxSpurious
    /\ spurious' = spurious + 1
    /\ waiting' = [waiting EXCEPT ![Tbl(t)] = @ \ {t}]
    /\ pc' = [pc EXCEPT ![t] = "cv_reacq"]
    /\ UNCHANGED <<serverVars, disk, cacheVars, rowMutex, csvMutex, qry, loaded,
                   fileOrURL, frameVars, out, result, err>>

\* lines 81-83 / 109-111: wait returns owning csvMutex, and the statement is
\* called again with the same arguments.
CvReacquire(t) ==
    /\ pc[t] = "cv_reacq"
    /\ csvMutex[Tbl(t)] = NoThread
    /\ csvMutex' = [csvMutex EXCEPT ![Tbl(t)] = t]
    /\ pc' = [pc EXCEPT ![t] = "start"]
    /\ UNCHANGED <<serverVars, disk, cacheVars, rowMutex, waiting, spurious, qry,
                   loaded, fileOrURL, frameVars, out, result, err>>

\* ------------------------------------------------ insertQuery, deleteQuery
InsertMsg == "insert is not yet implemented."
DeleteMsg == "delete is not yet implemented."

\* InsertQuery as it would be if it honoured mustWait before failing.
InsertQueryWaits(t) ==
    /\ pc[t] = "start" /\ qry[t].kind = "insert"
    /\ IF qry[t].mustWait
         THEN pc' = [pc EXCEPT ![t] = "cv_lock"] /\ UNCHANGED err
         ELSE pc' = [pc EXCEPT ![t] = "failed"] /\
              err' = [err EXCEPT ![t] = "insert is not yet implemented."]
    /\ UNCHANGED <<serverVars, disk, cacheVars, rowMutex, csvMutex, waiting,
                   spurious, qry, loaded, fileOrURL, frameVars, out, result>>

\* line 123
InsertQuery(t) ==
    /\ pc[t] = "start" /\ qry[t].kind = "insert"
    /\ pc' = [pc EXCEPT ![t] = "failed"]
    /\ err' = [err EXCEPT ![t] = InsertMsg]
    /\ UNCHANGED <<serverVars, disk, cacheVars, rowMutex, csvMutex, waiting,
                   spurious, qry, loaded, fileOrURL, frameVars, out, result>>

\* line 129
DeleteQuery(t) ==
    /\ pc[t] = "start" /\ qry[t].kind = "delete"
    /\ pc' = [pc EXCEPT ![t] = "failed"]
    /\ err' = [err EXCEPT ![t] = DeleteMsg]
    /\ UNCHANGED <<serverVars, disk, cacheVars, rowMutex, csvMutex, waiting,
                   spurious, qry, loaded, fileOrURL, frameVars, out, result>>

\* ------------------------------------------------------ the query engine
\* The tables are in memory (earlier statements loaded them); every thread
\* is about to run one statement on the table loadAndGet returned to it.
InitRows == [r \in Rows |-> <<0, 0>>]
FirstRows == {<<0, 0>>, <<1, 1>>}

\* The files of the server: a.csv is a table, bad.csv is not.
File(ok, rows) == [ok |-> ok, rows |-> rows]
Truncated == File(FALSE, << >>)
InitDisk == (A :> File(TRUE, InitRows)) @@ (Bad :> Truncated)

InitTables(first) ==
    /\ disk = InitDisk
    /\ inMemoryCSV = (T1 :> [InitRows EXCEPT ![1] = first]) @@ (T2 :> InitRows)
    /\ recentCSV = T1
    /\ recentCSVMutex = NoThread
    /\ rowMutex = [id \in {T1, T2} |-> [r \in Rows |-> NoThread]]
    /\ csvMutex = [id \in {T1, T2} |-> NoThread]
    /\ waiting = [id \in {T1, T2} |-> {}]
    /\ spurious = 0

\* The server is not running: the statements come through the direct API.
InitNoServer ==
    /\ numThreads = 0 /\ maxThr = 1 /\ thrMutex = "free"
    /\ accPc = "off" /\ accepted = 0
    /\ wpc = << >> /\ wresp = << >>

InitThreads(assignments) ==
    /\ qry \in assignments
    /\ pc = [t \in DOMAIN qry |-> "start"]
    /\ fileOrURL = [t \in DOMAIN qry |-> qry[t].tbl]
    /\ loaded = [t \in DOMAIN qry |-> << >>]
    /\ colNames = [t \in DOMAIN qry |-> qry[t].colNames]
    /\ rowIdx = [t \in DOMAIN qry |-> 1]
    /\ numRows = [t \in DOMAIN qry |-> 0]
    /\ rowChosen = [t \in DOMAIN qry |-> FALSE]
    /\ selRow = [t \in DOMAIN qry |-> << >>]
    /\ colI = [t \in DOMAIN qry |-> 1]
    /\ passes = [t \in DOMAIN qry |-> 0]
    /\ out = [t \in DOMAIN qry |-> << >>]
    /\ result = [t \in DOMAIN qry |-> -1]
    /\ err = [t \in DOMAIN qry |-> ""]

Init ==
    /\ \E first \in FirstRows : InitTables(first)
    /\ InitThreads(Assignments)
    /\ InitNoServer

PassStep(t) ==
    \/ SelectQuery(t) \/ SelLock(t) \/ SelCheckCopy(t) \/ SelDisplay(t)
    \/ UpdateQuery(t) \/ UpdLock(t) \/ UpdTest(t) \/ UpdSet(t)
    \/ EndWait(t) \/ EndReport(t)
    \/ CvLock(t) \/ CvRelock(t) \/ CvWait(t) \/ SpuriousWakeup(t)
    \/ CvReacquire(t)

Next == \E t \in QThreads : PassStep(t) \/ InsertQuery(t) \/ DeleteQuery(t)

Spec == Init /\ [][Next]_vars

\* Three threads on one table: two blocking selects, one of them for a value
\* no statement writes, and the update that makes the other one's rows.
WakeAssignments ==
    { <<Sel(T1, TRUE, <<"*">>, 1, 2), Sel(T1, TRUE, <<"*">>, 1, 1), u>> :
        u \in {Upd(T1, FALSE, 1, 1, 0), Upd(T1, FALSE, 1, -1, 0)} }

InitWake ==
    InitTables(<<0, 0>>) /\ InitThreads(WakeAssignments) /\ InitNoServer

WakeThreads == {1, 2, 3}

NextWake == \E t \in WakeThreads : PassStep(t)

SpecWake == InitWake /\ [][NextWake]_vars

\* ======================================================= the query engine
Threads == DOMAIN pc
Finished(t) == pc[t] \in {"done", "failed", "hung"}
WhereHolds(t, row) ==
    \/ qry[t].whereColIdx = -1
    \/ matches(row[qry[t].whereColIdx], qry[t].cond, qry[t].value)
\* Every statement but UpdC2 writes the same value to c1 and c2 and every
\* table starts
\* with c1 = c2 in every row: a row with c1 # c2 has some of an update's
\* values and not the others.
Whole(row) == row[1] = row[2]

\* C1 (as claimed): a blocking select that started before the update which
\* makes a row satisfy its condition completes in every interleaving; so it
\* is never left blocked on the condition variable, with a row of its table
\* satisfying its condition, once every other thread has returned.
NoMissedWakeup ==
    \A s \in Threads :
        (/\ qry[s].kind = "select" /\ qry[s].mustWait
         /\ pc[s] = "cv_blocked"
         /\ \A u \in Threads \ {s} : Finished(u))
        => ~ \E r \in Rows : WhereHolds(s, inMemoryCSV[Tbl(s)][r])

\* C4: what a select copies from a row, and the row a select or an update
\* tests under the row's lock, has all of an update's values or none.
RowIsolation ==
    /\ \A t \in Threads : selRow[t] # << >> => Whole(selRow[t])
    /\ \A t \in Threads : pc[t] \in {"sel_cs", "upd_test"} => Whole(RowOf(t))
    /\ \A t \in Threads :
          pc[t] = "sel_disp" => rowChosen[t] = WhereHolds(t, selRow[t])

\* C4 witness: a select is at the lock of a row that an update has written
\* one of two values to.
RowIsolationWitness ==
    \E s \in Threads, u \in Threads :
        /\ pc[s] = "sel_lock" /\ pc[u] = "upd_set" /\ colI[u] = 2
        /\ Tbl(s) = Tbl(u) /\ rowIdx[s] = rowIdx[u]
        /\ ~Whole(RowOf(u))

\* C8 (as claimed): with mustWait a statement never reports zero rows, a
\* zero-row pass goes on to block on the table's condition variable (the
\* thread reaches line 80/108 able to take csvMutex: it does not own it), and
\* without mustWait the statement reports the count of its one pass.
MustWaitRule ==
    \A t \in Threads :
        /\ (pc[t] = "done" /\ qry[t].mustWait) => result[t] > 0
        /\ (pc[t] = "done" /\ ~qry[t].mustWait) =>
                (passes[t] = 1 /\ result[t] = numRows[t])
        /\ pc[t] = "cv_lock" => csvMutex[Tbl(t)] # t
        /\ pc[t] \notin {"hung", "failed"} \/ qry[t].kind \notin {"select", "update"}

\* C9 (as claimed): every statement the broadcast woke goes on to evaluate
\* its condition again: it is never left waiting for a csvMutex whose owner
\* will not give it back.
WokenReevaluates ==
    \A t \in Threads :
        pc[t] = "cv_reacq" =>
            \A o \in Threads : csvMutex[Tbl(t)] = o => pc[o] # "hung"

\* C10: the only step of an insert or a delete is from its start to the
\* failure with the fixed message, and it changes no table, no lock, no
\* waiter and nothing of the cache.
UnsupportedOps ==
    [][\A t \in Threads :
          (qry[t].kind \in {"insert", "delete"} /\ pc'[t] # pc[t]) =>
             /\ pc[t] = "start" /\ pc'[t] = "failed"
             /\ err'[t] = (IF qry[t].kind = "insert" THEN InsertMsg ELSE DeleteMsg)
             /\ result'[t] = -1 /\ out'[t] = << >>
             /\ UNCHANGED <<inMemoryCSV, recentCSV, recentCSVMutex, rowMutex,
                            csvMutex, waiting>>]_vars

\* C10 witness: an insert and a delete, both with mustWait, have failed
\* while the table has no row their condition holds for.
UnsupportedOpsWitness ==
    \E i \in Threads, d \in Threads :
        /\ qry[i].kind = "insert" /\ qry[i].mustWait /\ pc[i] = "failed"
        /\ qry[d].kind = "delete" /\ qry[d].mustWait /\ pc[d] = "failed"
        /\ err[i] = InsertMsg /\ err[d] = DeleteMsg
        /\ \A r \in Rows : ~WhereHolds(i, inMemoryCSV[Tbl(i)][r])

\* A select with no condition that does not wait.
Unconditional(t) ==
    qry[t].kind = "select" /\ ~qry[t].mustWait /\ qry[t].whereColIdx = -1

\* C12: a finished select with whereColIdx = -1 and mustWait = false has
\* written one row for each of the table's n rows and reports n; and when
\* the other statements running on the table are selects, inserts or
\* deletes (none of which writes a row), the i-th row written is the
\* chosen columns of the table's i-th row.
UnconditionalSelect ==
    \A t \in Threads :
        (Unconditional(t) /\ pc[t] = "done") =>
            /\ result[t] = Len(inMemoryCSV[Tbl(t)])
            /\ Len(out[t]) = Len(inMemoryCSV[Tbl(t)])
            /\ (\A u \in Threads : qry[u].kind # "update") =>
                  \A i \in 1..Len(out[t]) :
                      out[t][i] = display(inMemoryCSV[Tbl(t)][i], colNames[t])

\* C12 witness: two unconditional selects ran on a table whose first row
\* differs from its last; one has finished and the other is between its
\* rows.
UnconditionalSelectWitness ==
    \E t, u \in Threads :
        /\ t # u /\ Unconditional(t) /\ Unconditional(u)
        /\ pc[t] = "done" /\ result[t] = NumRows
        /\ out[t][1] # out[t][NumRows]
        /\ pc[u] = "sel_disp" /\ rowIdx[u] = 1

\* C15: a thread leaves csvCondVar.wait on a notification only in the step
\* in which an update of its table, having counted a row, ends: that update
\* is past the last row of its pass and holds no row's lock, so every row
\* it matched carries all of its set-values.
WakeAfterCommit ==
    [][\A u \in Threads :
          (pc[u] = "cv_blocked" /\ pc'[u] = "cv_reacq" /\ spurious' = spurious)
          => \E t \in Threads \ {u} :
                /\ qry[t].kind = "update" /\ Tbl(t) = Tbl(u)
                /\ pc[t] = "end" /\ pc'[t] = "done" /\ numRows[t] > 0
                /\ rowIdx[t] = Len(inMemoryCSV[Tbl(t)])
                /\ \A r \in Rows :
                      /\ rowMutex[Tbl(t)][r] # t
                      /\ rowMutex[Tbl(t)][r] = NoThread
                            => Whole(inMemoryCSV[Tbl(t)][r])
      ]_vars

\* C15 witness: a waiter was woken by the notification of an update that
\* has finished, no wakeup was spurious, and a row now satisfies the
\* waiter's condition.
WakeAfterCommitWitness ==
    \E u, t \in Threads :
        /\ pc[u] = "cv_reacq" /\ spurious = 0
        /\ qry[t].kind = "update" /\ pc[t] = "done" /\ result[t] > 0
        /\ Tbl(t) = Tbl(u)
        /\ \E r \in Rows : WhereHolds(u, inMemoryCSV[Tbl(u)][r])

\* C16: the owner of a row's mutex is at that row, in the check-and-copy
\* step of a select or in the check-and-mutate steps of an update; so it
\* is not writing output (display, the count) and is not in a wait.
RowLockSpan ==
    \A id \in DOMAIN rowMutex : \A r \in Rows :
        LET t == rowMutex[id][r] IN
            t # NoThread =>
                /\ Tbl(t) = id /\ rowIdx[t] = r
                /\ \/ qry[t].kind = "select" /\ pc[t] = "sel_cs"
                   \/ qry[t].kind = "update" /\ pc[t] \in {"upd_test", "upd_set"}

\* C16 witness: an update is between its two writes to a row while the
\* other thread is blocked in a wait, having been through the rows.
RowLockSpanWitness ==
    \E t, u \in Threads :
        /\ pc[t] = "upd_set" /\ colI[t] = 2
        /\ rowMutex[Tbl(t)][rowIdx[t]] = t
        /\ pc[u] = "cv_blocked" /\ Tbl(u) = Tbl(t) /\ passes[u] >= 1

\* The locks a thread owns: the cache lock, tables' locks, rows' locks.
Held(t) ==
    (IF recentCSVMutex = t THEN {<<"cache">>} ELSE {})
      \cup {<<"table", id>> : id \in {i \in DOMAIN csvMutex : csvMutex[i] = t}}
      \cup {<<"row", x[1], x[2]>> :
               x \in {y \in (DOMAIN rowMutex) \X Rows : rowMutex[y[1]][y[2]] = t}}

\* C17 (as claimed): every thread owns at most one lock among the cache
\* lock, the tables' locks and the rows' locks; the cache lock is not owned
\* by a thread that is blocked in a wait or loading; and no thread waits
\* for a lock that a waiting thread owns, itself included.
LockDomains ==
    \A t \in Threads :
        /\ Cardinality(Held(t)) <= 1
        /\ pc[t] \in {"cv_blocked", "lg_load"} => recentCSVMutex # t
        /\ pc[t] # "hung"

\* ------------------------------------------------ updates racing on rows
\* Two statements on one table: updates whose set-values end the match of
\* their own condition, an update of one column that leaves it matching,
\* and a select.  The first row starts matching or with a value no
\* statement writes.
UpdC2 ==
    [kind |-> "update", tbl |-> T1, mustWait |-> FALSE, colNames |-> <<"c2">>,
     values |-> <<1>>, whereColIdx |-> 1, cond |-> "=", value |-> 0]

UpdStatements ==
    << Upd(T1, FALSE, 1, 1, 0),           \* set c1=1,c2=1 where c1 = 0
       Upd(T1, FALSE, 2, 1, 0),           \* set c1=2,c2=2 where c1 = 0
       UpdC2,                             \* set c2=1 where c1 = 0
       Sel(T1, FALSE, <<"*">>, -1, 0) >>  \* select * of every row

UpdThreads == {1, 2}

UpdAssignments ==
    { [t \in UpdThreads |-> UpdStatements[f[t]]] :
        f \in { g \in [UpdThreads -> 1..Len(UpdStatements)] : g[1] <= g[2] } }

UpdFirstRows == {<<0, 0>>, <<3, 3>>}

InitUpd ==
    /\ \E first \in UpdFirstRows : InitTables(first)
    /\ InitThreads(UpdAssignments)
    /\ InitNoServer

NextUpd ==
    \E t \in UpdThreads :
        \/ SelectQuery(t) \/ SelLock(t) \/ SelCheckCopy(t) \/ SelDisplay(t)
        \/ UpdateQuery(t) \/ UpdLock(t) \/ UpdTest(t) \/ UpdSet(t)
        \/ EndReport(t)

SpecUpd == InitUpd /\ [][NextUpd]_vars

\* An update "set c1 = v, ... where c1 = 0" with v # 0: a row it has
\* written no longer matches.
StopsMatching(t) ==
    /\ qry[t].kind = "update" /\ qry[t].whereColIdx = 1
    /\ qry[t].cond = "=" /\ qry[t].value = 0
    /\ qry[t].colNames[1] = "c1" /\ qry[t].values[1] # 0

\* The rows the finished updates that set c1 to v report in all.
Reported(v) ==
    (IF qry[1].values[1] = v THEN result[1] ELSE 0)
      + (IF qry[2].values[1] = v THEN result[2] ELSE 0)

\* C14: when two updates with the condition c1 = 0, each setting c1 to a
\* value other than 0, have both finished, every row that matched was
\* updated by exactly one of them: for each set-value v, the counts
\* reported by the updates that set v add up to the number of rows that
\* hold v (in c1 and in c2), so the counts reported for one row add up to 1.
AtomicMatchMutate ==
    (\A t \in UpdThreads : StopsMatching(t) /\ pc[t] = "done") =>
        \A v \in {1, 2} :
            Reported(v) = Cardinality({r \in Rows :
                                         inMemoryCSV[T1][r] = <<v, v>>})

\* C14 witness: the two updates set different values, both have finished,
\* and each of them got to one of the matching rows first.
AtomicMatchMutateWitness ==
    /\ \A t \in UpdThreads : StopsMatching(t) /\ pc[t] = "done"
    /\ qry[1].values # qry[2].values
    /\ result[1] >= 1 /\ result[2] >= 1

\* C18: the tables keep their rows, the rows their columns; a step that
\* changes a table is an update's write of one set-column, with that
\* column's set-value, to the row whose mutex the update owns; an update
\* gets to write a row, and counts it, exactly when the row satisfies the
\* condition at the test under that mutex, and leaves a row it wrote with
\* every set-column at its set-value; the count it reports is the number
\* of rows it counted; and no step of a select changes a table.
UpdateFrame ==
    [][/\ DOMAIN inMemoryCSV' = DOMAIN inMemoryCSV
       /\ \A id \in DOMAIN inMemoryCSV :
             /\ DOMAIN inMemoryCSV'[id] = DOMAIN inMemoryCSV[id]
             /\ \A r \in DOMAIN inMemoryCSV[id] :
                   DOMAIN inMemoryCSV'[id][r] = DOMAIN inMemoryCSV[id][r]
       /\ inMemoryCSV' # inMemoryCSV =>
             \E t \in Threads :
                /\ qry[t].kind = "update" /\ pc[t] = "upd_set"
                /\ rowMutex[Tbl(t)][rowIdx[t]] = t
                /\ inMemoryCSV' = [inMemoryCSV EXCEPT
                      ![Tbl(t)][rowIdx[t]]
                       [getColumnIndex(qry[t].colNames[colI[t]])] =
                          qry[t].values[colI[t]]]
       /\ \A t \in Threads :
             /\ (pc[t] = "upd_test" /\ pc'[t] # "upd_test") =>
                   /\ rowMutex[Tbl(t)][rowIdx[t]] = t
                   /\ IF WhereHolds(t, RowOf(t))
                        THEN pc'[t] = "upd_set" /\ numRows'[t] = numRows[t] + 1
                        ELSE pc'[t] # "upd_set" /\ numRows'[t] = numRows[t]
             /\ (pc[t] = "upd_set" /\ pc'[t] # "upd_set") =>
                   \A i \in 1..Len(qry[t].colNames) :
                       inMemoryCSV'[Tbl(t)][rowIdx[t]]
                           [getColumnIndex(qry[t].colNames[i])]
                         = qry[t].values[i]
             /\ (qry[t].kind = "update" /\ pc[t] = "end" /\ pc'[t] = "done")
                   => result'[t] = numRows[t]
             /\ (qry[t].kind = "select" /\ pc'[t] # pc[t])
                   => inMemoryCSV' = inMemoryCSV
      ]_vars

\* C18 witness: "set c2 = 1 where c1 = 0" has finished beside a select on
\* a table whose first row did not match: it reports the other rows, the
\* first row is as it was, and the last has the new c2 and its old c1.
UpdateFrameWitness ==
    \E t, u \in Threads :
        /\ qry[t] = UpdC2 /\ pc[t] = "done" /\ result[t] = NumRows - 1
        /\ qry[u].kind = "select" /\ pc[u] = "done"
        /\ inMemoryCSV[T1][1] = <<3, 3>>
        /\ inMemoryCSV[T1][NumRows] = <<0, 1>>

\* ================================================================ server
Workers == DOMAIN wpc
Free == "free"
AccThread == "runServer"

\* line 167: the predicate of thrCond.wait.
AdmitPredOffByOne(n, m) == n <= m
AdmitPred(n, m) == n < m

\* numThreads++ / numThreads-- (lines 176, 156) as one indivisible step.
FetchAdd(n, d) == n + d

\* line 166: unique_lock on thrMutex; only runServer ever takes it.
AccLock ==
    /\ accPc = "acc_lock" /\ thrMutex = Free
    /\ thrMutex' = AccThread
    /\ accPc' = "acc_pred"
    /\ UNCHANGED <<queryVars, disk, spurious, numThreads, maxThr, accepted, wpc,
                   wresp>>

\* line 167: wait(lock, pred) is while (!pred()) wait(lock).
AccPred ==
    /\ accPc = "acc_pred"
    /\ accPc' = IF AdmitPred(numThreads, maxThr) THEN "acc_accept" ELSE "acc_wait"
    /\ UNCHANGED <<queryVars, disk, spurious, numThreads, maxThr, thrMutex,
                   accepted, wpc, wresp>>

\* line 167: wait(lock) gives thrMutex back and blocks, in one step.
AccWait ==
    /\ accPc = "acc_wait"
    /\ thrMutex' = Free
    /\ accPc' = "acc_blocked"
    /\ UNCHANGED <<queryVars, disk, spurious, numThreads, maxThr, accepted, wpc,
                   wresp>>

\* std::condition_variable::wait may return without a notification.
AccSpurious ==
    /\ accPc = "acc_blocked"
    /\ spurious < MaxSpurious
    /\ spurious' = spurious + 1
    /\ accPc' = "acc_reacq"
    /\ UNCHANGED <<queryVars, disk, numThreads, maxThr, thrMutex, accepted, wpc,
                   wresp>>

\* line 167: wait(lock) returns owning thrMutex; the predicate is read again.
AccReacquire ==
    /\ accPc = "acc_reacq" /\ thrMutex = Free
    /\ thrMutex' = AccThread
    /\ accPc' = "acc_pred"
    /\ UNCHANGED <<queryVars, disk, spurious, numThreads, maxThr, accepted, wpc,
                   wresp>>

\* line 172: a client connects.
AccAccept ==
    /\ accPc = "acc_accept"
    /\ accepted < MaxConn
    /\ accepted' = accepted + 1
    /\ accPc' = "acc_spawn"
    /\ UNCHANGED <<queryVars, disk, spurious, numThreads, maxThr, thrMutex, wpc,
                   wresp>>

\* line 175: the worker's thread starts running clientThread.
AccSpawn ==
    /\ accPc = "acc_spawn"
    /\ wpc' = [wpc EXCEPT ![accepted] = "handling"]
    /\ accPc' = "acc_inc"
    /\ UNCHANGED <<queryVars, disk, spurious, numThreads, maxThr, thrMutex,
                   accepted, wresp>>

\* line 176
AccInc ==
    /\ accPc = "acc_inc"
    /\ numThreads' = FetchAdd(numThreads, 1)
    /\ accPc' = "acc_detach"
    /\ UNCHANGED <<queryVars, disk, spurious, maxThr, thrMutex, accepted, wpc,
                   wresp>>

\* lines 177-178: detach; the lock goes out of scope; the loop starts over.
AccDetach ==
    /\ accPc = "acc_detach"
    /\ thrMutex' = Free
    /\ accPc' = "acc_lock"
    /\ UNCHANGED <<queryVars, disk, spurious, numThreads, maxThr, accepted, wpc,
                   wresp>>

\* lines 137-155: a query request is answered with its result or, when
\* process throws, with "Error: ..."; another request with the file; an
\* empty request with nothing.
Outcomes == {"result", "Error: ", "file", "none"}

\* A worker whose catch clause is missing: the exception ends the thread.
WHandleErrorEscapes(w) ==
    /\ wpc[w] = "handling"
    /\ \E o \in Outcomes :
          /\ wresp' = [wresp EXCEPT ![w] = IF o \in {"none", "Error: "}
                                           THEN @ ELSE Append(@, o)]
          /\ wpc' = [wpc EXCEPT ![w] = IF o = "Error: " THEN "exited"
                                       ELSE "release"]
    /\ UNCHANGED <<queryVars, disk, spurious, numThreads, maxThr, thrMutex, accPc,
                   accepted>>

WHandle(w) ==
    /\ wpc[w] = "handling"
    /\ \E o \in Outcomes :
          wresp' = [wresp EXCEPT ![w] = IF o = "none" THEN @ ELSE Append(@, o)]
    /\ wpc' = [wpc EXCEPT ![w] = "release"]
    /\ UNCHANGED <<queryVars, disk, spurious, numThreads, maxThr, thrMutex, accPc,
                   accepted>>

\* A worker whose decrement is lost.
WDecLost(w) ==
    /\ wpc[w] = "release"
    /\ wpc' = [wpc EXCEPT ![w] = "notify"]
    /\ UNCHANGED <<queryVars, disk, spurious, numThreads, maxThr, thrMutex,
                   accPc, accepted, wresp>>

\* line 156, without thrMutex.
WDec(w) ==
    /\ wpc[w] = "release"
    /\ numThreads' = FetchAdd(numThreads, -1)
    /\ wpc' = [wpc EXCEPT ![w] = "notify"]
    /\ UNCHANGED <<queryVars, disk, spurious, maxThr, thrMutex, accPc, accepted,
                   wresp>>

\* line 157, without thrMutex: a thread blocked in wait is woken, and
\* nothing happens when none is.
WNotify(w) ==
    /\ wpc[w] = "notify"
    /\ accPc' = IF accPc = "acc_blocked" THEN "acc_reacq" ELSE accPc
    /\ wpc' = [wpc EXCEPT ![w] = "exited"]
    /\ UNCHANGED <<queryVars, disk, spurious, numThreads, maxThr, thrMutex,
                   accepted, wresp>>

InitNoQueries ==
    /\ disk = InitDisk
    /\ inMemoryCSV = << >> /\ recentCSV = Empty /\ recentCSVMutex = NoThread
    /\ rowMutex = << >> /\ csvMutex = << >> /\ waiting = << >>
    /\ pc = << >> /\ qry = << >> /\ fileOrURL = << >> /\ loaded = << >>
    /\ colNames = << >>
    /\ rowIdx = << >> /\ numRows = << >> /\ rowChosen = << >>
    /\ selRow = << >> /\ colI = << >> /\ passes = << >> /\ out = << >>
    /\ result = << >> /\ err = << >>

InitServer ==
    /\ InitNoQueries
    /\ spurious = 0
    /\ numThreads = 0
    /\ maxThr \in 1..MaxWorkers
    /\ thrMutex = Free
    /\ accPc = "acc_lock"
    /\ accepted = 0
    /\ wpc = [w \in 1..MaxConn |-> "idle"]
    /\ wresp = [w \in 1..MaxConn |-> << >>]

NextServer ==
    \/ AccLock \/ AccPred \/ AccWait \/ AccSpurious \/ AccReacquire
    \/ AccAccept \/ AccSpawn \/ AccInc \/ AccDetach
    \/ \E w \in 1..MaxConn : WHandle(w) \/ WDec(w) \/ WNotify(w)

SpecServer == InitServer /\ [][NextServer]_vars

\* The workers that were spawned and have not released their slot.
Active == {w \in Workers : wpc[w] \in {"handling", "release"}}

\* C2: at most maxThr workers are spawned and not released, and the loop is
\* at accept or about to spawn only with fewer than maxThr of them.
AdmissionBound ==
    /\ Cardinality(Active) <= maxThr
    /\ accPc \in {"acc_accept", "acc_spawn"} => Cardinality(Active) < maxThr

\* C2 witness: maxThr workers are active, a further connection is still to
\* come and the accept loop is held back in wait.
AdmissionBoundWitness ==
    /\ Cardinality(Active) = maxThr /\ maxThr > 1
    /\ accepted = maxThr /\ accepted < MaxConn
    /\ accPc = "acc_blocked"

\* C3 (as claimed): the accept loop is never left blocked in wait with the
\* count below maxThr once every spawned worker has decremented and notified.
AdmissionWakes ==
    ~ (/\ accPc = "acc_blocked"
       /\ numThreads < maxThr
       /\ \A w \in Workers : wpc[w] \in {"idle", "exited"})

\* C20 (as claimed): numThreads is never negative and never above maxThr,
\* and when the accept loop evaluates its predicate it is the number of
\* workers spawned and not released.
CounterNeverNegative ==
    /\ 0 <= numThreads /\ numThreads <= maxThr
    /\ accPc = "acc_pred" => numThreads = Cardinality(Active)

\* C20 (amended): numThreads is the number of workers spawned and not
\* released, less one between the start of a worker's thread (line 175)
\* and the increment for it (line 176); so it is never above maxThr, it is
\* below 0 only there (a worker that has released already: -1), and when
\* the accept loop evaluates its predicate it is exactly the number of
\* workers spawned and not released.
CounterAccuracy ==
    /\ numThreads = Cardinality(Active) - (IF accPc = "acc_inc" THEN 1 ELSE 0)
    /\ -1 <= numThreads /\ numThreads <= maxThr
    /\ accPc # "acc_inc" => 0 <= numThreads
    /\ accPc = "acc_pred" => numThreads = Cardinality(Active)

\* C20 witness: the accept loop is at its predicate with a worker still
\* active, after another has released its slot and ended.
CounterAccuracyWitness ==
    /\ accPc = "acc_pred" /\ numThreads >= 1
    /\ numThreads = Cardinality(Active)
    /\ \E w \in Workers : wpc[w] = "exited"

\* The responses a query request gets (lines 142-151).
QueryResponses == {"result", "Error: "}

\* C11: a worker that leaves the handling of its request goes on to release
\* its slot, having written exactly one response when the request was a
\* query, whether process returned or threw; it then decrements numThreads
\* exactly once and after that notifies thrCond, waking a blocked accept
\* loop; and none of these steps changes the position of another worker or,
\* the wake-up apart, of the accept loop.
WorkerRelease ==
    [][\A w \in 1..MaxConn :
          /\ wpc'[w] # wpc[w] =>
                \A v \in (1..MaxConn) \ {w} : wpc'[v] = wpc[v]
          /\ (wpc[w] = "handling" /\ wpc'[w] # "handling") =>
                /\ wpc'[w] = "release"
                /\ Len(wresp'[w]) <= 1
                /\ wresp'[w] # << >> =>
                      wresp'[w][1] \in QueryResponses \cup {"file"}
                /\ numThreads' = numThreads /\ accPc' = accPc
          /\ (wpc[w] = "release" /\ wpc'[w] # "release") =>
                /\ wpc'[w] = "notify"
                /\ numThreads' = numThreads - 1
                /\ wresp' = wresp /\ accPc' = accPc
          /\ (wpc[w] = "notify" /\ wpc'[w] # "notify") =>
                /\ wpc'[w] = "exited"
                /\ numThreads' = numThreads /\ wresp' = wresp
                /\ accPc' = IF accPc = "acc_blocked" THEN "acc_reacq"
                            ELSE accPc
          /\ wpc[w] = "exited" => wpc'[w] = "exited" /\ wresp'[w] = wresp[w]
      ]_vars

\* C11 witness: a worker answered "Error: ", released its slot and ended,
\* and the accept loop has since admitted a worker that is handling its
\* own request.
WorkerReleaseWitness ==
    \E w, v \in Workers :
        /\ wpc[w] = "exited" /\ wresp[w] = <<"Error: ">>
        /\ v > w /\ wpc[v] = "handling"
        /\ maxThr = 1

\* ================================================================= cache
\* lines 217-224: the status line of the web server's response.
StatusLine(id) == IF id = URLOK THEN "HTTP/1.1 200 OK" ELSE "HTTP/1.1 404 Not Found"
Has200(status) == status = "HTTP/1.1 200 OK"

\* CSV::load: the rows of a readable, well-formed source; an exception for
\* any other.  A local source is the file as it is on the disk at the load,
\* and a file an ofstream has truncated is not a well-formed table.
Readable(id) == id = URLOK \/ (id \in DOMAIN disk /\ disk[id].ok)
FileRows(id) == IF id \in DOMAIN disk THEN disk[id].rows ELSE InitRows

\* lines 247-261: "ok", or the message of the exception.
LoadOutcome(id) ==
    IF IsURL(id)
      THEN IF Has200(StatusLine(id)) THEN "ok" ELSE "Error (404 Not Found)"
      ELSE IF Readable(id) THEN "ok" ELSE "LoadError"

\* CSV::move: the data of src becomes the data of the entry.
CSVMove(dst, src) == src

\* line 235
LgLock(t) ==
    /\ pc[t] = "lg_lock"
    /\ recentCSVMutex = NoThread
    /\ recentCSVMutex' = t
    /\ pc' = [pc EXCEPT ![t] = "lg_lookup"]
    /\ UNCHANGED <<serverVars, disk, inMemoryCSV, recentCSV, rowMutex, csvMutex,
                   waiting, spurious, qry, loaded, fileOrURL, frameVars, out,
                   result, err>>

\* lines 237-244: the identifier is resolved and recorded as the most
\* recent one; a table that is in memory is returned.
LgLookup(t) ==
    /\ pc[t] = "lg_lookup"
    /\ LET id == IF IsEmpty(fileOrURL[t]) THEN recentCSV ELSE fileOrURL[t] IN
          /\ fileOrURL' = [fileOrURL EXCEPT ![t] = id]
          /\ recentCSV' = id
          /\ pc' = [pc EXCEPT ![t] =
                      IF id \in DOMAIN inMemoryCSV THEN "start" ELSE "lg_load"]
    /\ recentCSVMutex' = NoThread
    /\ UNCHANGED <<serverVars, disk, inMemoryCSV, rowMutex, csvMutex, waiting,
                   spurious, qry, loaded, frameVars, out, result, err>>

\* lines 247-261: the load, outside the critical sections.
LgLoad(t) ==
    /\ pc[t] = "lg_load"
    /\ IF LoadOutcome(fileOrURL[t]) = "ok"
         THEN /\ loaded' = [loaded EXCEPT ![t] = FileRows(fileOrURL[t])]
              /\ pc' = [pc EXCEPT ![t] = "lg_ins_lock"]
              /\ UNCHANGED err
         ELSE /\ err' = [err EXCEPT ![t] = LoadOutcome(fileOrURL[t])]
              /\ pc' = [pc EXCEPT ![t] = "failed"]
              /\ UNCHANGED loaded
    /\ UNCHANGED <<serverVars, disk, cacheVars, rowMutex, csvMutex, waiting,
                   spurious, qry, fileOrURL, frameVars, out, result>>

\* line 267
LgInsLock(t) ==
    /\ pc[t] = "lg_ins_lock"
    /\ recentCSVMutex = NoThread
    /\ recentCSVMutex' = t
    /\ pc' = [pc EXCEPT ![t] = "lg_insert"]
    /\ UNCHANGED <<serverVars, disk, inMemoryCSV, recentCSV, rowMutex, csvMutex,
                   waiting, spurious, qry, loaded, fileOrURL, frameVars, out,
                   result, err>>

\* An entry operator[] creates: no rows, free mutexes, no waiter.
WithEntry(f, id, fresh) == IF id \in DOMAIN f THEN f ELSE (id :> fresh) @@ f

\* lines 269-271: operator[] finds or creates the entry, the loaded data is
\* moved into it, and the entry is returned.
LgInsert(t) ==
    /\ pc[t] = "lg_insert"
    /\ LET id == fileOrURL[t]
           old == WithEntry(inMemoryCSV, id, << >>) IN
          inMemoryCSV' = [old EXCEPT ![id] = CSVMove(@, loaded[t])]
    /\ rowMutex' = WithEntry(rowMutex, fileOrURL[t], [r \in Rows |-> NoThread])
    /\ csvMutex' = WithEntry(csvMutex, fileOrURL[t], NoThread)
    /\ waiting' = WithEntry(waiting, fileOrURL[t], {})
    /\ loaded' = [loaded EXCEPT ![t] = << >>]
    /\ recentCSVMutex' = NoThread
    /\ pc' = [pc EXCEPT ![t] = "start"]
    /\ UNCHANGED <<serverVars, disk, recentCSV, spurious, qry, fileOrURL,
                   frameVars, out, result, err>>

\* Every thread resolves an identifier and then updates every row of the
\* table it was given.
CacheAssignments ==
    { [t \in QThreads |-> Upd(CacheIds[f[t]], FALSE, 1, -1, 0)] :
        f \in { g \in [QThreads -> 1..Len(CacheIds)] :
                    \A t \in QThreads \ {1} : g[t - 1] <= g[t] } }

InitCache ==
    /\ disk = InitDisk
    /\ inMemoryCSV = << >> /\ recentCSV = Empty /\ recentCSVMutex = NoThread
    /\ rowMutex = << >> /\ csvMutex = << >> /\ waiting = << >>
    /\ spurious = 0
    /\ qry \in CacheAssignments
    /\ pc = [t \in QThreads |-> "lg_lock"]
    /\ fileOrURL = [t \in QThreads |-> qry[t].tbl]
    /\ loaded = [t \in QThreads |-> << >>]
    /\ colNames = [t \in QThreads |-> qry[t].colNames]
    /\ rowIdx = [t \in QThreads |-> 1]
    /\ numRows = [t \in QThreads |-> 0]
    /\ rowChosen = [t \in QThreads |-> FALSE]
    /\ selRow = [t \in QThreads |-> << >>]
    /\ colI = [t \in QThreads |-> 1]
    /\ passes = [t \in QThreads |-> 0]
    /\ out = [t \in QThreads |-> << >>]
    /\ result = [t \in QThreads |-> -1]
    /\ err = [t \in QThreads |-> ""]
    /\ InitNoServer

NextCache ==
    \E t \in QThreads :
        \/ LgLock(t) \/ LgLookup(t) \/ LgLoad(t) \/ LgInsLock(t) \/ LgInsert(t)
        \/ UpdateQuery(t) \/ UpdLock(t) \/ UpdTest(t) \/ UpdSet(t)
        \/ EndReport(t)

SpecCache == InitCache /\ [][NextCache]_vars

\* C5 (as claimed): two first-time resolutions of one identifier both
\* succeed and get the same table, the insertion of the second leaves the
\* table the first is using as it is (a row no update holds the lock of has
\* all of an update's values or none), and the most recent identifier names
\* that table.
CacheCoherence ==
    /\ \A t \in Threads : Readable(qry[t].tbl) => pc[t] # "failed"
    /\ \A t \in Threads, u \in Threads :
          (qry[t].tbl = qry[u].tbl /\ Readable(qry[t].tbl)) =>
              (Finished(t) /\ Finished(u) => fileOrURL[t] = fileOrURL[u])
    /\ \A id \in DOMAIN inMemoryCSV : \A r \in DOMAIN inMemoryCSV[id] :
          rowMutex[id][r] = NoThread => Whole(inMemoryCSV[id][r])
    /\ (\A t \in Threads : qry[t].tbl = A /\ Finished(t)) => recentCSV = A

\* C6 (as claimed): a call with an empty identifier, made when no identifier
\* was ever given, does not go on to the load and ends with NotFound.
EmptyIdResolution ==
    \A t \in Threads :
        (IsEmpty(qry[t].tbl) /\ IsEmpty(fileOrURL[t])) =>
            /\ pc[t] \in {"lg_lock", "lg_lookup", "failed"}
            /\ pc[t] = "failed" => err[t] = "NotFound"

\* C7 (as claimed): no step of a call whose load fails changes the mapping or
\* the most recent identifier.
LoadFailureKeepsCache ==
    [][\A t \in Threads :
          (/\ pc[t] \in {"lg_lock", "lg_lookup", "lg_load"}
           /\ pc'[t] # pc[t]
           /\ LoadOutcome(IF IsEmpty(fileOrURL[t]) THEN recentCSV
                                                  ELSE fileOrURL[t]) # "ok"
           /\ (IF IsEmpty(fileOrURL[t]) THEN recentCSV ELSE fileOrURL[t])
                  \notin DOMAIN inMemoryCSV)
          => (inMemoryCSV' = inMemoryCSV /\ recentCSV' = recentCSV)]_vars

\* C19 (as claimed): the insertion step of a loadAndGet call for an
\* identifier that already has a table in the cache (an earlier call inserted
\* it and returned it) leaves the rows of that table as they are, so a row an
\* update wrote through the returned reference keeps its values.
NoLostUpdates ==
    [][\A t \in Threads :
          (/\ pc[t] = "lg_insert" /\ pc'[t] # "lg_insert"
           /\ fileOrURL[t] \in DOMAIN inMemoryCSV)
          => inMemoryCSV'[fileOrURL[t]] = inMemoryCSV[fileOrURL[t]]]_vars

\* ============================================================== saveQuery
\* The "save" statement: saveQuery takes no table, it works on recentCSV.
Save ==
    [kind |-> "save", tbl |-> Empty, mustWait |-> FALSE, colNames |-> <<"c1">>,
     values |-> << >>, whereColIdx |-> -1, cond |-> "=", value |-> 0]

SaveMsg == "Saving CSV to an URL using POST is not implemented"
\* what() of the std::out_of_range that unordered_map::at throws.
AtMsg == "out_of_range"

\* CSV::save: the rows of the table, written to the stream.
CSVSave(rows) == File(TRUE, rows)

\* lines 276-278: no lock is taken, here or below.
SaveQuery(t) ==
    /\ pc[t] = "save" /\ qry[t].kind = "save"
    /\ IF IsEmpty(recentCSV) \/ IsURL(recentCSV)
         THEN /\ pc' = [pc EXCEPT ![t] = "failed"]
              /\ err' = [err EXCEPT ![t] = SaveMsg]
         ELSE /\ pc' = [pc EXCEPT ![t] = "save_open"]
              /\ UNCHANGED err
    /\ UNCHANGED <<serverVars, disk, cacheVars, rowMutex, csvMutex, waiting,
                   spurious, qry, loaded, fileOrURL, frameVars, out, result>>

\* line 280: the ofstream creates or truncates the file recentCSV names
\* now; fileOrURL[t] keeps the path the stream is on.  A path that is not a
\* local one cannot be created, and the stream is left in its fail state.
SaveOpen(t) ==
    /\ pc[t] = "save_open"
    /\ fileOrURL' = [fileOrURL EXCEPT ![t] = recentCSV]
    /\ disk' = IF recentCSV \in DOMAIN disk
                 THEN [disk EXCEPT ![recentCSV] = Truncated] ELSE disk
    /\ pc' = [pc EXCEPT ![t] = "save_write"]
    /\ UNCHANGED <<serverVars, cacheVars, rowMutex, csvMutex, waiting,
                   spurious, qry, loaded, frameVars, out, result, err>>

\* lines 281-282: at() throws when recentCSV names no table in memory;
\* otherwise the table writes itself to the stream and "<id> saved." is
\* written to os.
SaveWrite(t) ==
    /\ pc[t] = "save_write"
    /\ IF recentCSV \in DOMAIN inMemoryCSV
         THEN /\ disk' = IF fileOrURL[t] \in DOMAIN disk
                           THEN [disk EXCEPT ![fileOrURL[t]] =
                                     CSVSave(inMemoryCSV[recentCSV])]
                           ELSE disk
              /\ out' = [out EXCEPT ![t] = Append(@, recentCSV)]
              /\ pc' = [pc EXCEPT ![t] = "done"]
              /\ UNCHANGED err
         ELSE /\ err' = [err EXCEPT ![t] = AtMsg]
              /\ pc' = [pc EXCEPT ![t] = "failed"]
              /\ UNCHANGED <<disk, out>>
    /\ UNCHANGED <<serverVars, cacheVars, rowMutex, csvMutex, waiting,
                   spurious, qry, loaded, fileOrURL, frameVars, result>>

\* Every thread either resolves a source and updates every row of its
\* table, or saves.
SaveStatements ==
    << Upd(A, FALSE, 1, -1, 0), Upd(Bad, FALSE, 1, -1, 0),
       Upd(URLOK, FALSE, 1, -1, 0), Save >>

SaveAssignments ==
    { [t \in QThreads |-> SaveStatements[f[t]]] :
        f \in { g \in [QThreads -> 1..Len(SaveStatements)] :
                    \A t \in QThreads \ {1} : g[t - 1] <= g[t] } }

InitSave ==
    /\ disk = InitDisk
    /\ inMemoryCSV = << >> /\ recentCSV = Empty /\ recentCSVMutex = NoThread
    /\ rowMutex = << >> /\ csvMutex = << >> /\ waiting = << >>
    /\ spurious = 0
    /\ qry \in SaveAssignments
    /\ pc = [t \in QThreads |-> IF qry[t].kind = "save" THEN "save"
                                ELSE "lg_lock"]
    /\ fileOrURL = [t \in QThreads |-> qry[t].tbl]
    /\ loaded = [t \in QThreads |-> << >>]
    /\ colNames = [t \in QThreads |-> qry[t].colNames]
    /\ rowIdx = [t \in QThreads |-> 1]
    /\ numRows = [t \in QThreads |-> 0]
    /\ rowChosen = [t \in QThreads |-> FALSE]
    /\ selRow = [t \in QThreads |-> << >>]
    /\ colI = [t \in QThreads |-> 1]
    /\ passes = [t \in QThreads |-> 0]
    /\ out = [t \in QThreads |-> << >>]
    /\ result = [t \in QThreads |-> -1]
    /\ err = [t \in QThreads |-> ""]
    /\ InitNoServer

NextSave ==
    \E t \in QThreads :
        \/ LgLock(t) \/ LgLookup(t) \/ LgLoad(t) \/ LgInsLock(t) \/ LgInsert(t)
        \/ UpdateQuery(t) \/ UpdLock(t) \/ UpdTest(t) \/ UpdSet(t)
        \/ EndReport(t)
        \/ SaveQuery(t) \/ SaveOpen(t) \/ SaveWrite(t)

SpecSave == InitSave /\ [][NextSave]_vars

Saving(t) == qry[t].kind = "save"

\* C13 (as claimed): a saveQuery fails only with the "not implemented"
\* error, raised for an empty or http:// recentCSV; a saveQuery that failed
\* wrote no file; and one that went through left in the file it wrote a
\* table.
SavePrecondition ==
    \A t \in Threads :
        Saving(t) =>
            /\ pc[t] = "failed" => err[t] = SaveMsg
            /\ (\A u \in Threads : Saving(u) => pc[u] \in {"save", "failed"})
                  => disk = InitDisk
            /\ (pc[t] = "done" /\ fileOrURL[t] \in DOMAIN disk)
                  => disk[fileOrURL[t]].ok

====
